---- MODULE Spec2Model ----
(***************************************************************************)
(* Model of the YouTube downloader bot (src/youtube_bot.py, src/config.py).*)
(* Texts, identifiers and callback tokens are sequences of one-character   *)
(* strings, so that the regular expressions of extract_video_id and the    *)
(* split('_') of process_download_request are computed as the code does.   *)
(* Updates are handled one at a time, in arrival order, by the single      *)
(* Application built at youtube_bot.py:603 (no concurrent updates are      *)
(* requested); new updates arrive while a handler is between two awaits.   *)
(***************************************************************************)
EXTENDS Integers, Sequences, FiniteSets, TLC

VARIABLES user_data, queue, pc, upd, menus, files, job, used, reply

vars == <<user_data, queue, pc, upd, menus, files, job, used, reply>>

(***************************** bounds **************************************)
MaxQueue == 1

Users == {1, 2}

(***************************** config.py ***********************************)
MAX_FILE_SIZE == 2000000000

K_best == <<"b","e","s","t">>
K_720p == <<"7","2","0","p">>
K_480p == <<"4","8","0","p">>
K_360p == <<"3","6","0","p">>
K_audio == <<"a","u","d","i","o">>

\* The keys of Config.QUALITY_OPTIONS, in the order of the dictionary.
QUALITY_OPTIONS == <<K_best, K_720p, K_480p, K_360p, K_audio>>

QualityKeys == {QUALITY_OPTIONS[i] : i \in 1..Len(QUALITY_OPTIONS)}

D_youtube_com == <<"y","o","u","t","u","b","e",".","c","o","m">>
D_youtu_be == <<"y","o","u","t","u",".","b","e">>
D_nocookie == <<"y","o","u","t","u","b","e","-","n","o","c","o","o","k","i","e",".","c","o","m">>
D_m_youtube == <<"m",".">> \o D_youtube_com

SUPPORTED_DOMAINS == <<D_youtube_com, D_youtu_be, D_nocookie, D_m_youtube>>

(***************************** strings *************************************)
\* s has the literal lit at position i.
HasAt(s, lit, i) ==
    /\ i >= 1
    /\ i + Len(lit) - 1 <= Len(s)
    /\ SubSeq(s, i, i + Len(lit) - 1) = lit

\* Python's `sub in s`.
Contains(sub, s) == \E i \in 1..(Len(s) + 1) : HasAt(s, sub, i)

\* Python's s.split(sep) for a one-character separator.
RECURSIVE SplitFrom(_, _, _, _)
SplitFrom(s, sep, i, acc) ==
    IF i > Len(s) THEN <<acc>>
    ELSE IF s[i] = sep THEN <<acc>> \o SplitFrom(s, sep, i + 1, <<>>)
    ELSE SplitFrom(s, sep, i + 1, Append(acc, s[i]))

Split(s, sep) == SplitFrom(s, sep, 1, <<>>)

(***************************** extract_video_id ****************************)
L_watch == D_youtube_com \o <<"/","w","a","t","c","h","?","v","=">>
L_short == D_youtu_be \o <<"/">>
L_embed == D_youtube_com \o <<"/","e","m","b","e","d","/">>
L_shorts == D_youtube_com \o <<"/","s","h","o","r","t","s","/">>
L_v == D_youtube_com \o <<"/","v","/">>

\* Variant: the pattern of shorts links is missing.
Patterns_NoShorts == << <<L_watch, L_short, L_embed>>, <<L_v>> >>

\* The three patterns, each the alternatives of its non-capturing group.
Patterns == << <<L_watch, L_short, L_embed>>, <<L_shorts>>, <<L_v>> >>

\* The characters the capturing group [^&\n?#]+ stops at.
StopChars == {"&", "\n", "?", "#"}

None == <<"None">>

\* End of the greedy run of non-stop characters that starts at j.
RECURSIVE RunEnd(_, _)
RunEnd(s, j) ==
    IF j <= Len(s) /\ s[j] \notin StopChars THEN RunEnd(s, j + 1) ELSE j - 1

\* The alternatives of a pattern that match at position i (literal, then
\* at least one captured character).
AltsAt(alts, s, i) ==
    {k \in 1..Len(alts) :
        /\ HasAt(s, alts[k], i)
        /\ i + Len(alts[k]) <= Len(s)
        /\ s[i + Len(alts[k])] \notin StopChars}

\* re.search(pattern, url).group(1): leftmost position, first alternative.
Search(alts, s) ==
    LET pos == {i \in 1..Len(s) : AltsAt(alts, s, i) # {}}
    IN IF pos = {} THEN None
       ELSE LET i == CHOOSE p \in pos : \A r \in pos : p <= r
                k == CHOOSE a \in AltsAt(alts, s, i) :
                        \A b \in AltsAt(alts, s, i) : a <= b
                j == i + Len(alts[k])
            IN SubSeq(s, j, RunEnd(s, j))

RECURSIVE ExtractFrom(_, _)
ExtractFrom(url, n) ==
    IF n > Len(Patterns) THEN None
    ELSE IF Search(Patterns[n], url) # None THEN Search(Patterns[n], url)
    ELSE ExtractFrom(url, n + 1)

extract_video_id(url) == ExtractFrom(url, 1)

\* The keywords of the partial-link hint of handle_message (line 267).
Keywords == << <<"y","o","u","t","u","b","e">>, D_youtu_be, <<"w","a","t","c","h","?","v","=">> >>

\* Variant: a text is taken for a link as soon as it holds a link keyword.
is_valid_youtube_url_ByKeyword(url) ==
    \E k \in 1..Len(Keywords) : Contains(Keywords[k], url)

is_valid_youtube_url(url) ==
    /\ \E d \in 1..Len(SUPPORTED_DOMAINS) : Contains(SUPPORTED_DOMAINS[d], url)
    /\ extract_video_id(url) # None

(***************************** inputs **************************************)
\* Content identifiers of the links users submit.
Id_a == <<"a">>
Id_a_b == <<"a","_","b">>

Https == <<"h","t","t","p","s",":","/","/">>

ShortLink(id) == Https \o L_short \o id

\* The messages users send, as <<user, text>>: user 1 sends a link for each
\* identifier and a text that is no link, user 2 a link for the first
\* identifier.
Submissions ==
    { <<1, ShortLink(Id_a)>>, <<1, ShortLink(Id_a_b)>>, <<1, <<"h","i">> >>,
      <<2, ShortLink(Id_a)>> }

Texts == {s[2] : s \in Submissions}

\* The link shapes of one identifier: watch, short, embed and shorts link,
\* bare or followed by a further parameter.
Id_dash == <<"x","-","y">>

LinkIds == {Id_a, Id_a_b, Id_dash}

Www == <<"w","w","w",".">>

LinkShapes == {"watch", "short", "embed", "shorts"}

Link(shape, id) ==
    CASE shape = "watch" -> Https \o Www \o L_watch \o id
      [] shape = "short" -> ShortLink(id)
      [] shape = "embed" -> Https \o Www \o L_embed \o id
      [] shape = "shorts" -> Https \o Www \o L_shorts \o id

\* The parameter that follows the identifier in a link of each shape.
LinkParameter(shape) ==
    IF shape = "watch" THEN <<"&","t","=","1">> ELSE <<"?","t","=","1">>

LinkTexts ==
    {Link(sh, id) : sh \in LinkShapes, id \in LinkIds}
    \cup {Link(sh, id) \o LinkParameter(sh) : sh \in LinkShapes, id \in LinkIds}

\* Texts with no supported domain in them: an identifier alone, the query
\* of a watch link, a watch link of another site.
DomainlessTexts ==
    { Id_a_b,
      <<"w","a","t","c","h","?","v","=">> \o Id_a,
      Https \o <<"e","x","a","m","p","l","e",".","o","r","g","/","w","a","t","c","h","?","v","=">> \o Id_a }

\* Texts with a supported domain and no identifier a pattern extracts: the
\* embed link of the no-cookie domain, the home page.
IdlessTexts ==
    { Https \o Www \o D_nocookie \o <<"/","e","m","b","e","d","/">> \o Id_a,
      Https \o Www \o D_youtube_com \o <<"/">> }

\* The messages of the classifier runs: user 1 sends the links and the
\* texts with a domain, user 2 the texts without one.
LinkSubmissions ==
    {<<1, t>> : t \in LinkTexts \cup IdlessTexts} \cup {<<2, t>> : t \in DomainlessTexts}

AllTexts == Texts \cup {s[2] : s \in LinkSubmissions}

\* The quality buttons users press.
PressedQualities == {K_720p, K_audio}

\* A quality key no button of the menu carries: a client that writes its own
\* callback data sends it.
K_4k == <<"4","k">>

ForgedQualities == {K_4k, K_720p}

\* Sizes of the body the download endpoint returns.
BodySizes == {0, MAX_FILE_SIZE, MAX_FILE_SIZE + 1}

\* What the info endpoint answers (get_video_info).
InfoResponses == {"request_exception", "non200", "json_title", "json_falsy"}

\* Every kind of answer get_video_info tells apart: also a JSON dictionary
\* with no title, a JSON value that is no dictionary, a body that is not
\* JSON.
AllInfoResponses == InfoResponses \cup {"json_notitle", "json_nondict", "html"}

(***************************** dictionaries ********************************)
EmptyDict == <<>>

DictGet(d, k, default) == IF k \in DOMAIN d THEN d[k] ELSE default

DictSet(d, k, v) == [x \in (DOMAIN d) \cup {k} |-> IF x = k THEN v ELSE d[x]]

(***************************** updates *************************************)
NoMenu == [owner |-> 0, video_id |-> <<>>]

\* An update: a text message or a button press.  menu is the menu whose
\* button was pressed; during is the link of the download job of the same
\* user that was in flight when the message was sent.
NoUpdate == [kind |-> "none", from |-> 0, text |-> <<>>, data |-> <<>>, menu |-> NoMenu,
             during |-> <<>>]

Message(u, t, d) == [kind |-> "message", from |-> u, text |-> t, data |-> <<>>,
                     menu |-> NoMenu, during |-> d]

Callback(u, d, m) == [kind |-> "callback", from |-> u, text |-> <<>>, data |-> d,
                      menu |-> m, during |-> <<>>]

S_download == <<"d","o","w","n","l","o","a","d","_">>
S_cancel == <<"c","a","n","c","e","l","_","d","o","w","n","l","o","a","d">>

\* f"download_{quality_key}_{video_id}"
callback_data(quality_key, video_id) == S_download \o quality_key \o <<"_">> \o video_id

StartsWith(s, prefix) == HasAt(s, prefix, 1)

Whitespace == {" ", "\n", "\t"}

RECURSIVE Strip(_)
Strip(s) ==
    IF s = <<>> THEN s
    ELSE IF Head(s) \in Whitespace THEN Strip(Tail(s))
    ELSE IF s[Len(s)] \in Whitespace THEN Strip(SubSeq(s, 1, Len(s) - 1))
    ELSE s

(***************************** get_video_info ******************************)
T_default == <<"YouTube Video">>
T_unknown == <<"Unknown Title">>

\* The title the resolver reports for a link.
ApiTitle(url) == <<"T", ":">> \o extract_video_id(url)

NoInfo == [kind |-> "None", title |-> None]

\* The value get_video_info returns for each answer of the info endpoint:
\* None, the decoded JSON value, or the dictionary built from a non-JSON body.
get_video_info(url, resp) ==
    CASE resp = "request_exception" -> NoInfo
      [] resp = "non200" -> NoInfo
      [] resp = "json_title" -> [kind |-> "dict", title |-> ApiTitle(url)]
      [] resp = "json_notitle" -> [kind |-> "dict", title |-> None]
      [] resp = "json_falsy" -> [kind |-> "falsy", title |-> None]
      [] resp = "json_nondict" -> [kind |-> "nondict", title |-> None]
      [] resp = "html" -> [kind |-> "dict", title |-> T_unknown]

\* Python's `not video_info`.
Falsy(video_info) == video_info.kind \in {"None", "falsy"}

\* video_info.get('title', 'YouTube Video') on a dictionary.
TitleOf(video_info) == IF video_info.title = None THEN T_default ELSE video_info.title

(***************************** state ***************************************)
NoJob == [user |-> 0, quality |-> <<>>, video_id |-> <<>>, url |-> <<>>, title |-> <<>>,
          path |-> <<>>, status |-> "none", size |-> -1, transport |-> "not_called",
          sent |-> <<>>,
          outcome |-> "none", superseded |-> None]

\* user_data: the dictionary self.user_data; queue: updates received and not
\* yet handled; pc, upd: the handler that runs and its update; menus: the
\* quality menus shown in chats; files: the paths that exist on disk;
\* job: the download job of the handler that runs or has just returned, with
\* the attachments it delivered and the link its user sent meanwhile;
\* used: the temporary paths of the jobs so far, a history that SpecPaths
\* records and Spec leaves empty; reply: the last message sent by the handler that has just returned,
\* the user it answered and the link whose job was in flight when that user
\* wrote; its info is the answer of the info endpoint, which SpecFetch
\* records.
NoReply == [msg |-> "none", from |-> 0, during |-> None, info |-> "none"]

Init ==
    /\ user_data = EmptyDict
    /\ queue = <<>>
    /\ pc = "idle"
    /\ upd = NoUpdate
    /\ menus = {}
    /\ files = {}
    /\ job = NoJob
    /\ used = {}
    /\ reply = NoReply

InFlight == pc \in {"dl_get", "dl_write", "dl_send"}

\* What handle_message finds in each text: the stripped text, whether it is
\* a valid link, its video identifier, whether it holds a link keyword.
\* AllTexts: the texts of every specification below.
Classified ==
    [t \in AllTexts |->
        [text |-> Strip(t),
         valid |-> is_valid_youtube_url(Strip(t)),
         video_id |-> extract_video_id(Strip(t)),
         keyword |-> \E k \in 1..Len(Keywords) : Contains(Keywords[k], Strip(t))]]

\* A user sends a text message; it waits in the update queue.  A valid link
\* sent while the user's job is in flight supersedes that job.
SendMessage(u, t) ==
    /\ Len(queue) < MaxQueue
    /\ queue' = Append(queue, Message(u, t, IF InFlight /\ job.user = u /\ Classified[t].valid THEN job.url ELSE None))
    /\ job' = IF InFlight /\ job.user = u /\ Classified[t].valid
              THEN [job EXCEPT !.superseded = Classified[t].text]
              ELSE job
    /\ UNCHANGED <<user_data, pc, upd, menus, files, used, reply>>

\* A user presses a quality button of a menu the bot has shown.
PressDownload(u, m, q) ==
    /\ Len(queue) < MaxQueue
    /\ m \in menus
    /\ queue' = Append(queue, Callback(u, callback_data(q, m.video_id), m))
    /\ UNCHANGED <<user_data, pc, upd, menus, files, job, used, reply>>

\* A user presses the Cancel button of a menu.
PressCancel(u, m) ==
    /\ Len(queue) < MaxQueue
    /\ m \in menus
    /\ queue' = Append(queue, Callback(u, S_cancel, m))
    /\ UNCHANGED <<user_data, pc, upd, menus, files, job, used, reply>>

\* The application takes the next update from its queue.
Dispatch ==
    /\ pc = "idle"
    /\ queue # <<>>
    /\ upd' = Head(queue)
    /\ queue' = Tail(queue)
    /\ pc' = "handle"
    /\ reply' = NoReply
    /\ job' = NoJob
    /\ UNCHANGED <<user_data, menus, files, used>>

\* The handler of the current update returns (or its exception reached
\* error_handler): the last message the user got from it is recorded.
FinishAfter(r, info) ==
    /\ pc' = "idle"
    /\ upd' = NoUpdate
    /\ reply' = [msg |-> r, from |-> upd.from, during |-> upd.during, info |-> info]

Finish(r) == FinishAfter(r, "none")

(***************************** handle_message ******************************)
\* self.user_data[user_id] = {} when the user has no entry yet.
EnsureUser(ud, u) == IF u \in DOMAIN ud THEN ud ELSE DictSet(ud, u, EmptyDict)

\* Variant: the user's whole entry is replaced by the new current video.
StoreVideo_Replacing(ud, u, url, title, video_id) ==
    DictSet(ud, u, DictSet(EmptyDict, "current_video",
                           [url |-> url, title |-> title, video_id |-> video_id]))

\* self.user_data[user_id]['current_video'] = {...}
StoreVideo(ud, u, url, title, video_id) ==
    LET e == EnsureUser(ud, u)
    IN [e EXCEPT ![u] = DictSet(e[u], "current_video",
                                [url |-> url, title |-> title, video_id |-> video_id])]

\* The reply after the except clause of a handler has run: its own message,
\* or error_handler's when sending that message raised too.
ExceptReply(okErr, r) == IF okErr THEN r ELSE "error_handler"

\* The except clause of process_video_request (lines 358-365).
ExceptOfVideoRequest(info) ==
    \E okErr \in BOOLEAN : FinishAfter(ExceptReply(okErr, "error_occurred"), info)

\* handle_message and, for a valid link, process_video_request.  Every
\* message sent may be refused by the transport (the call raises).
\* responses: the answers the info endpoint may give; record: the answer
\* is kept with the reply.
HandleMessage(responses, record) ==
    /\ pc = "handle"
    /\ upd.kind = "message"
    /\ LET c == Classified[upd.text]
           message_text == c.text
           user_id == upd.from
           video_id == c.video_id
       IN IF ~c.valid
          THEN /\ \E okFirst \in BOOLEAN :
                    Finish(IF ~okFirst THEN "error_handler"
                           ELSE IF c.keyword THEN "not_extracted" ELSE "please_send_url")
               /\ UNCHANGED <<user_data, menus>>
          ELSE \/ /\ Finish("error_handler")
                  /\ UNCHANGED <<user_data, menus>>
               \/ \E resp \in responses :
                    LET video_info == get_video_info(message_text, resp)
                        info == IF record THEN resp ELSE "none"
                    IN IF Falsy(video_info)
                       THEN /\ FinishAfter("fetch_failed", info) \/ ExceptOfVideoRequest(info)
                            /\ UNCHANGED <<user_data, menus>>
                       ELSE IF video_info.kind = "nondict"
                       THEN /\ user_data' = EnsureUser(user_data, user_id)
                            /\ ExceptOfVideoRequest(info)
                            /\ UNCHANGED menus
                       ELSE /\ user_data' = StoreVideo(user_data, user_id, message_text,
                                                       TitleOf(video_info), video_id)
                            /\ \/ /\ menus' = menus \cup {[owner |-> user_id,
                                                          video_id |-> video_id]}
                                  /\ FinishAfter("menu", info)
                               \/ /\ ExceptOfVideoRequest(info)
                                  /\ UNCHANGED menus
    /\ UNCHANGED <<queue, files, job, used>>

handle_message == HandleMessage(InfoResponses, FALSE)

handle_message_recorded == HandleMessage(AllInfoResponses, TRUE)

(***************************** handle_callback_query ***********************)
\* The branches of handle_callback_query other than download_: only the
\* Cancel button is pressed here.  query.answer() may raise for any press.
handle_callback_query ==
    /\ pc = "handle"
    /\ upd.kind = "callback"
    /\ \/ Finish("error_handler")
       \/ /\ upd.data = S_cancel
          /\ Finish("cancelled")
    /\ UNCHANGED <<user_data, queue, menus, files, job, used>>

(***************************** settings ************************************)
S_set_quality == <<"s","e","t","_","q","u","a","l","i","t","y","_">>
S_toggle_auto == <<"t","o","g","g","l","e","_","a","u","t","o">>
S_toggle_document == <<"t","o","g","g","l","e","_","d","o","c","u","m","e","n","t">>

\* The buttons of the settings message that users press (settings_command,
\* lines 214-229, which reads user_data and changes nothing).
SettingsButtons ==
    {S_set_quality \o K_best, S_set_quality \o K_480p, S_toggle_auto, S_toggle_document}

\* Python's s.replace(old, "").
RECURSIVE Remove(_, _)
Remove(s, old) ==
    IF s = <<>> THEN <<>>
    ELSE IF HasAt(s, old, 1) THEN Remove(SubSeq(s, Len(old) + 1, Len(s)), old)
    ELSE <<Head(s)>> \o Remove(Tail(s), old)

\* The user's entry and its 'settings' dictionary are created when missing
\* (lines 409-412 and 423-426).
EnsureSettings(ud, u, initial) ==
    LET e == EnsureUser(ud, u)
    IN IF "settings" \in DOMAIN e[u] THEN e
       ELSE [e EXCEPT ![u] = DictSet(e[u], "settings", initial)]

\* Variant: the 'settings' dictionaries of all users are one object, so a
\* value set for one user is set in every entry that has settings.
SetSetting_Shared(ud, u, key, value) ==
    [x \in DOMAIN ud |->
        IF "settings" \in DOMAIN ud[x]
        THEN DictSet(ud[x], "settings", DictSet(ud[x]["settings"], key, value))
        ELSE ud[x]]

\* self.user_data[user_id]['settings'][key] = value
SetSetting(ud, u, key, value) ==
    [ud EXCEPT ![u] = DictSet(ud[u], "settings", DictSet(ud[u]["settings"], key, value))]

\* A user presses a button of the settings message.
PressSetting(u, d) ==
    /\ Len(queue) < MaxQueue
    /\ queue' = Append(queue, Callback(u, d, NoMenu))
    /\ UNCHANGED <<user_data, pc, upd, menus, files, job, used, reply>>

\* The branches of handle_callback_query after download_ (lines 407-435),
\* once query.answer() has returned: set_quality_, toggle_auto, and no
\* branch for any other data.
handle_callback_query_settings ==
    /\ pc = "handle"
    /\ upd.kind = "callback"
    /\ upd.data # S_cancel
    /\ ~StartsWith(upd.data, S_download)
    /\ LET user_id == upd.from
       IN IF StartsWith(upd.data, S_set_quality)
          THEN LET quality == Remove(upd.data, S_set_quality)
               IN /\ user_data' = SetSetting(EnsureSettings(user_data, user_id, EmptyDict),
                                             user_id, "default_quality", quality)
                  /\ Finish("settings_updated") \/ Finish("error_handler")
          ELSE IF upd.data = S_toggle_auto
          THEN LET e == EnsureSettings(user_data, user_id,
                                       DictSet(EmptyDict, "auto_download", FALSE))
                   current == DictGet(e[user_id]["settings"], "auto_download", FALSE)
               IN /\ user_data' = SetSetting(e, user_id, "auto_download", ~current)
                  /\ Finish("settings_updated") \/ Finish("error_handler")
          ELSE /\ Finish("none")
               /\ UNCHANGED user_data
    /\ UNCHANGED <<queue, menus, files, job, used>>

\* The dictionary settings_command reads for a user (lines 197-201): the
\* stored 'settings', or the defaults when the user has none.
DefaultSettings ==
    [default_quality |-> K_720p, auto_download |-> FALSE, send_as_document |-> FALSE]

user_settings(ud, u) == DictGet(DictGet(ud, u, EmptyDict), "settings", DefaultSettings)

\* The keys the settings text and keyboard subscript (lines 206-227).
DisplayedSettings == {"default_quality", "auto_download", "send_as_document"}

\* Every assignment of the source into self.user_data: its line, the
\* expression that selects the user's entry, and what is stored: the object
\* a dictionary display creates when the assignment runs ("display"), or a
\* string or boolean ("scalar").
StoresOfUserData ==
    { [line |-> 324, entry |-> "user_id", value |-> "display"],
      [line |-> 326, entry |-> "user_id", value |-> "display"],
      [line |-> 410, entry |-> "user_id", value |-> "display"],
      [line |-> 412, entry |-> "user_id", value |-> "display"],
      [line |-> 413, entry |-> "user_id", value |-> "scalar"],
      [line |-> 424, entry |-> "user_id", value |-> "display"],
      [line |-> 426, entry |-> "user_id", value |-> "display"],
      [line |-> 429, entry |-> "user_id", value |-> "scalar"] }

(***************************** process_download_request ********************)
\* f"temp_{user_id}_{video_id}.mp4"
TempPath(user_id, video_id) ==
    <<"t","e","m","p","_">> \o <<ToString(user_id)>> \o <<"_">> \o video_id
        \o <<".","m","p","4">>

\* The names bound in process_download_request: its parameters, its local
\* variables and the names bound at module level.
NamesOfDownload ==
    {"self", "query", "callback_data"}
    \cup {"parts", "quality", "video_id", "user_id", "video_info", "video_url",
          "video_title", "quality_label", "download_url", "progress", "response",
          "safe_title", "filename", "temp_path", "f", "chunk", "file_size",
          "video_file", "e"}
    \cup {"os", "logging", "asyncio", "re", "json", "requests", "InputFile",
          "Config", "logger"}

\* Variant: the handler's context is passed on to process_download_request.
ScopeOfDownload_WithContext == NamesOfDownload \cup {"context"}

\* The names process_download_request can read.
ScopeOfDownload == NamesOfDownload

\* The transport call the delivery step names for a quality key, and its
\* streaming hint.
DeliveryCall(quality) == [method |-> "send_video", supports_streaming |-> TRUE]

NoVideo == [url |-> None, title |-> None, video_id |-> None]

\* self.user_data.get(user_id, {}).get('current_video', {})
CurrentVideo(ud, u) == DictGet(DictGet(ud, u, EmptyDict), "current_video", NoVideo)

\* The job ends: its outcome is recorded and the handler returns.
FinishJob(outcome, r) ==
    /\ job' = [job EXCEPT !.outcome = outcome]
    /\ Finish(r)

\* The except clause of process_download_request (lines 560-568).
ExceptClause ==
    \E okErr \in BOOLEAN : FinishJob("download_error", ExceptReply(okErr, "download_error"))

\* Variant: only a missing current video makes a selection stale.
Stale_IgnoringId(video_info, video_id) == video_info = NoVideo

\* The selection is stale: no current video, or another identifier.
Stale(video_info, video_id) == video_info = NoVideo \/ video_info.video_id # video_id

\* Lines 440-476: the token is parsed, checked against the presser's current
\* video, and the job starts with the "Downloading" message.  record: the
\* path of the job is added to the history.
Confirm(record) ==
    /\ pc = "handle"
    /\ upd.kind = "callback"
    /\ upd.data # S_cancel
    /\ StartsWith(upd.data, S_download)
    /\ LET parts == Split(upd.data, "_")
           user_id == upd.from
           video_info == CurrentVideo(user_data, user_id)
       IN IF Len(parts) < 3
          THEN /\ Finish("invalid_format") \/ Finish("error_handler")
               /\ UNCHANGED <<job, used>>
          ELSE IF Stale(video_info, parts[3])
          THEN /\ Finish("send_link_again") \/ Finish("error_handler")
               /\ UNCHANGED <<job, used>>
          ELSE \/ /\ Finish("error_handler")
                  /\ UNCHANGED <<job, used>>
               \/ /\ job' = [user |-> user_id, quality |-> parts[2], video_id |-> parts[3],
                             url |-> video_info.url, title |-> video_info.title,
                             path |-> TempPath(user_id, parts[3]), status |-> "none",
                             size |-> -1, transport |-> "not_called", sent |-> <<>>,
                             outcome |-> "running", superseded |-> None]
                  /\ used' = IF record THEN used \cup {TempPath(user_id, parts[3])}
                             ELSE used
                  /\ pc' = "dl_get"
                  /\ UNCHANGED <<upd, reply>>
    /\ UNCHANGED <<user_data, queue, menus, files>>

DownloadConfirm == Confirm(FALSE)

DownloadConfirmRecorded == Confirm(TRUE)

\* f"{x/(1024*1024):.2f}": a size in megabytes with two decimals, as a
\* number of hundredths of a megabyte.
MegabytesText(x) ==
    (x \div 1048576) * 100 + (((x % 1048576) * 200 + 1048576) \div 2097152)

\* What the "File Too Large" message tells the user (lines 517-522).
TooLargeMessage(file_size) ==
    [file_size |-> MegabytesText(file_size), maximum |-> MegabytesText(MAX_FILE_SIZE)]

\* The outcome each final message of process_download_request names to the
\* user: "File Too Large" (line 517), "Download Failed" (line 553),
\* "Download Error ... An error occurred while downloading" (line 563),
\* "Download Successful" (line 545); error_handler's message names none.
OutcomeNamed(msg) ==
    CASE msg = "too_large" -> "TooLarge"
      [] msg = "download_failed" -> "DownloadFailed"
      [] msg = "download_error" -> "DownloadFailed"
      [] msg = "download_successful" -> "Delivered"
      [] OTHER -> "none"

\* What the download endpoint answers (lines 494-505).
DownloadResponses == {"request_exception", "404", "200"}

\* Lines 478-507: the progress messages, the request to the download
\* endpoint and the opening of the temporary file.
DownloadGet ==
    /\ pc = "dl_get"
    /\ \/ /\ ExceptClause
          /\ UNCHANGED files
       \/ \E resp \in DownloadResponses :
            IF resp = "request_exception"
            THEN /\ ExceptClause
                 /\ UNCHANGED files
            ELSE IF resp # "200"
            THEN /\ \/ /\ job' = [job EXCEPT !.status = resp,
                                              !.outcome = "download_failed"]
                       /\ Finish("download_failed")
                    \/ /\ job' = [job EXCEPT !.status = resp,
                                              !.outcome = "download_error"]
                       /\ \E okErr \in BOOLEAN :
                             Finish(ExceptReply(okErr, "download_error"))
                 /\ UNCHANGED files
            ELSE /\ files' = files \cup {job.path}
                 /\ job' = [job EXCEPT !.status = resp]
                 /\ pc' = "dl_write"
                 /\ UNCHANGED <<upd, reply>>
    /\ UNCHANGED <<user_data, queue, menus, used>>

\* Lines 507-524: the body is written chunk by chunk (written < body: the
\* transfer broke), the file is measured and an oversized file is refused.
DownloadWrite ==
    /\ pc = "dl_write"
    /\ \E body \in BodySizes, written \in BodySizes :
         /\ written <= body
         /\ LET file_size == written
            IN IF written < body
               THEN /\ ExceptClause
                    /\ UNCHANGED files
               ELSE IF file_size > MAX_FILE_SIZE
               THEN \/ /\ files' = files \ {job.path}
                       /\ job' = [job EXCEPT !.outcome = "too_large", !.size = file_size]
                       /\ Finish("too_large")
                    \/ /\ job' = [job EXCEPT !.outcome = "download_error",
                                            !.size = file_size]
                       /\ \E okErr \in BOOLEAN : Finish(ExceptReply(okErr, "download_error"))
                       /\ UNCHANGED files
               ELSE /\ job' = [job EXCEPT !.size = file_size]
                    /\ pc' = "dl_send"
                    /\ UNCHANGED <<upd, reply, files>>
    /\ UNCHANGED <<user_data, queue, menus, used>>

\* Lines 526-550: the delivery call, the removal of the temporary file and
\* the completion message.  The name `context` is read first: it is not in
\* scope, and the NameError is caught by the except clause.  Otherwise the
\* transport takes the payload or refuses it.
DownloadSend ==
    /\ pc = "dl_send"
    /\ LET call == DeliveryCall(job.quality)
       IN IF "context" \notin ScopeOfDownload
          THEN /\ ExceptClause
               /\ UNCHANGED files
          ELSE \/ /\ job' = [job EXCEPT !.transport = "rejected",
                                       !.outcome = "download_error"]
                  /\ \E okErr \in BOOLEAN : Finish(ExceptReply(okErr, "download_error"))
                  /\ UNCHANGED files
               \/ /\ files' = files \ {job.path}
                  /\ \/ /\ job' = [job EXCEPT !.transport = "accepted",
                                              !.sent = Append(job.sent, call),
                                              !.outcome = "delivered"]
                        /\ Finish("download_successful")
                     \/ /\ job' = [job EXCEPT !.transport = "accepted",
                                              !.sent = Append(job.sent, call),
                                              !.outcome = "download_error"]
                        /\ \E okErr \in BOOLEAN :
                              Finish(ExceptReply(okErr, "download_error"))
    /\ UNCHANGED <<user_data, queue, menus, used>>

(***************************** specification *******************************)
Next ==
    \/ \E s \in Submissions : SendMessage(s[1], s[2])
    \/ \E u \in Users, m \in menus, q \in PressedQualities : PressDownload(u, m, q)
    \/ \E m \in menus : PressCancel(m.owner, m)
    \/ Dispatch
    \/ handle_message
    \/ handle_callback_query
    \/ DownloadConfirm
    \/ DownloadGet
    \/ DownloadWrite
    \/ DownloadSend

Spec == Init /\ [][Next]_vars

\* The same program with the history of temporary paths recorded.
NextPaths ==
    \/ \E s \in Submissions : SendMessage(s[1], s[2])
    \/ \E u \in Users, m \in menus, q \in PressedQualities : PressDownload(u, m, q)
    \/ \E m \in menus : PressCancel(m.owner, m)
    \/ Dispatch
    \/ handle_message
    \/ handle_callback_query
    \/ DownloadConfirmRecorded
    \/ DownloadGet
    \/ DownloadWrite
    \/ DownloadSend

SpecPaths == Init /\ [][NextPaths]_vars

\* The same handlers when the callback data of a press is written by the
\* client: user 1 sends the messages and presses, with a quality key of the
\* table or another one.
NextForged ==
    \/ \E s \in {x \in Submissions : x[1] = 1} : SendMessage(s[1], s[2])
    \/ \E m \in menus, q \in ForgedQualities : PressDownload(m.owner, m, q)
    \/ \E m \in menus : PressCancel(m.owner, m)
    \/ Dispatch
    \/ handle_message
    \/ handle_callback_query
    \/ DownloadConfirm
    \/ DownloadGet
    \/ DownloadWrite
    \/ DownloadSend

SpecForged == Init /\ [][NextForged]_vars

\* The classifier and the information request alone: one text, drawn from
\* the link shapes and the texts that are no links, waits in the queue of
\* the bot that has just started, and is handled.
InitLinks ==
    /\ \E s \in LinkSubmissions : queue = <<Message(s[1], s[2], None)>>
    /\ user_data = EmptyDict
    /\ pc = "idle"
    /\ upd = NoUpdate
    /\ menus = {}
    /\ files = {}
    /\ job = NoJob
    /\ used = {}
    /\ reply = NoReply

NextLinks ==
    \/ Dispatch
    \/ handle_message

SpecLinks == InitLinks /\ [][NextLinks]_vars

\* The information request with every kind of answer, the answer recorded:
\* user 1 sends texts and presses nothing.
NextFetch ==
    \/ \E s \in {x \in Submissions : x[1] = 1} : SendMessage(s[1], s[2])
    \/ Dispatch
    \/ handle_message_recorded

SpecFetch == Init /\ [][NextFetch]_vars

\* The same handlers with the settings buttons: user 1 sends links, selects,
\* cancels and changes settings.
NextSettings ==
    \/ \E s \in {x \in Submissions : x[1] = 1} : SendMessage(s[1], s[2])
    \/ \E m \in menus : PressDownload(m.owner, m, K_720p)
    \/ \E m \in menus : PressCancel(m.owner, m)
    \/ \E d \in SettingsButtons : PressSetting(1, d)
    \/ Dispatch
    \/ handle_message
    \/ handle_callback_query
    \/ handle_callback_query_settings
    \/ DownloadConfirm
    \/ DownloadGet
    \/ DownloadWrite
    \/ DownloadSend

SpecSettings == Init /\ [][NextSettings]_vars

\* Two users, each with one link and one settings button, and the quality
\* and Cancel buttons of every menu shown.
SessionSubmissions == {x \in Submissions : x[2] = ShortLink(Id_a)}

SessionPresses == { <<1, S_set_quality \o K_best>>, <<2, S_toggle_auto>> }

NextSessions ==
    \/ \E s \in SessionSubmissions : SendMessage(s[1], s[2])
    \/ \E u \in Users, m \in menus : PressDownload(u, m, K_720p)
    \/ \E m \in menus : PressCancel(m.owner, m)
    \/ \E x \in SessionPresses : PressSetting(x[1], x[2])
    \/ Dispatch
    \/ handle_message
    \/ handle_callback_query
    \/ handle_callback_query_settings
    \/ DownloadConfirm
    \/ DownloadGet
    \/ DownloadWrite
    \/ DownloadSend

SpecSessions == Init /\ [][NextSessions]_vars

(***************************** properties **********************************)
Ended(j) == j.outcome \notin {"none", "running"}

\* The update is a press of a quality button.
IsDownloadPress(x) == x.kind = "callback" /\ StartsWith(x.data, S_download)

\* The handler of a link its user sent while their job was in flight shows
\* its menu.
MenuAfterSupersession ==
    /\ pc = "handle"
    /\ upd.kind = "message"
    /\ upd.during # None
    /\ reply'.msg = "menu"

StalePress ==
    /\ pc = "handle"
    /\ pc' # "handle"
    /\ IsDownloadPress(upd)
    /\ upd.menu.video_id # CurrentVideo(user_data, upd.from).video_id

\* C2: a quality press whose token embeds an identifier other than the
\* presser's current video identifier (or with no current video) starts no
\* job and is answered with the "send the link again" prompt.
C2_StaleTokenRejected ==
    [][StalePress => /\ ~InFlight'
                     /\ reply'.msg \in {"send_link_again", "error_handler"}]_vars

\* C3: no job runs for a press by a user other than the one whose link
\* produced the menu.
C3_OnlyOwnerStartsJob == InFlight => upd.menu.owner = upd.from

\* C4: an artifact measured above the maximum is never delivered and is no
\* longer on disk when its job has ended.
C4_OversizedRemoved ==
    job.size > MAX_FILE_SIZE =>
        /\ job.sent = <<>>
        /\ Ended(job) => job.path \notin files

\* C5: when a job whose artifact passed the size check has ended, its
\* temporary file is gone.
C5_AcceptedCleanedUp ==
    Ended(job) /\ job.size >= 0 /\ job.size <= MAX_FILE_SIZE => job.path \notin files

\* The download of an ended job failed: the request raised, the status was
\* not 200, the transfer broke while the file was written, or the body was
\* empty.
DownloadBroke(j) == j.status # "200" \/ j.size = -1 \/ j.size = 0

\* C6: a job whose download failed ends with a download-failed outcome and
\* leaves no temporary file.
C6_FailedDownloadCleanedUp ==
    Ended(job) /\ DownloadBroke(job) =>
        /\ job.outcome \in {"download_failed", "download_error"}
        /\ job.path \notin files

\* C7: a job that starts never takes a temporary path an earlier job used
\* (in SpecPaths, where the paths of the jobs are recorded).
C7_NoSharedPath == [][pc = "handle" /\ pc' = "dl_get" => job'.path \notin used]_vars

\* C8: a job whose download succeeded with an artifact within the maximum,
\* and whose transport calls are not refused, ends delivered: one video
\* delivery call and the success message.
C8_DeliveredOnSuccess ==
    /\ Ended(job)
    /\ job.status = "200"
    /\ job.size > 0
    /\ job.size <= MAX_FILE_SIZE
    /\ job.transport # "rejected"
    /\ reply.msg # "error_handler"
    => /\ job.outcome = "delivered"
       /\ Len(job.sent) = 1
       /\ reply.msg = "download_successful"

\* The attachment kind the quality choice asks for.
ExpectedCall(quality) ==
    IF quality = K_audio THEN [method |-> "send_audio", supports_streaming |-> FALSE]
    ELSE [method |-> "send_video", supports_streaming |-> TRUE]

\* C9: the delivery step of a job calls for an audio attachment when the
\* quality key is audio, and for a streaming video attachment otherwise.
C9_MediaKindFollowsQuality ==
    /\ pc = "dl_send" => DeliveryCall(job.quality).method = ExpectedCall(job.quality).method
    /\ \A i \in 1..Len(job.sent) : job.sent[i].method = ExpectedCall(job.quality).method

\* C10: the token of every quality press parses back into the quality key
\* and the content identifier the menu put into it.
C10_TokenRoundTrip ==
    \A x \in {upd} \cup {queue[i] : i \in 1..Len(queue)} :
        IsDownloadPress(x) =>
            LET parts == Split(x.data, "_")
            IN /\ Len(parts) >= 3
               /\ parts[2] \in QualityKeys
               /\ parts[3] = x.menu.video_id
               /\ callback_data(parts[2], x.menu.video_id) = x.data

\* The handler runs for a quality press whose quality key is not a key of
\* QUALITY_OPTIONS.
UnknownQualityPress ==
    /\ pc = "handle"
    /\ pc' # "handle"
    /\ IsDownloadPress(upd)
    /\ Split(upd.data, "_")[2] \notin QualityKeys

\* C11: a quality press whose quality key is not in the table starts no
\* job, and is answered as an invalid request when the identifier of its
\* menu is the presser's current one (a stale press may get the stale
\* answer instead).
C11_UnknownQualityRejected ==
    [][UnknownQualityPress =>
          /\ ~InFlight'
          /\ upd.menu.video_id = CurrentVideo(user_data, upd.from).video_id
                => reply'.msg \in {"invalid_format", "error_handler"}]_vars

\* The handler of a text message runs.
MessageHandled == pc = "handle" /\ pc' # "handle" /\ upd.kind = "message"

\* C12: a watch, short, embed or shorts link of an identifier, bare or with
\* a further parameter, is taken for a link, and the identifier stored for
\* it is that identifier, the same for the four shapes.
C12_SameIdFromEveryShape ==
    [][MessageHandled =>
          \A sh \in LinkShapes, id \in LinkIds :
              Strip(upd.text) \in {Link(sh, id), Link(sh, id) \o LinkParameter(sh)} =>
                  /\ reply'.msg \notin {"not_extracted", "please_send_url"}
                  /\ reply'.msg = "menu" =>
                        CurrentVideo(user_data', upd.from).video_id = id]_vars

\* The menu has been shown for the shorts link of an identifier with '_'
\* followed by a parameter, and the identifier is the current one.
C12_Witness ==
    /\ pc = "idle"
    /\ reply.msg = "menu"
    /\ reply.from = 1
    /\ CurrentVideo(user_data, 1).url = Link("shorts", Id_a_b) \o LinkParameter("shorts")
    /\ CurrentVideo(user_data, 1).video_id = Id_a_b

\* The text holds one of the supported domains.
HasSupportedDomain(t) ==
    \E d \in 1..Len(SUPPORTED_DOMAINS) : Contains(SUPPORTED_DOMAINS[d], t)

\* C13: a text with none of the supported domains in it is refused as a
\* link and writes nothing to the session, whatever else it holds; a text
\* that writes to the session holds a supported domain and an identifier
\* that a pattern extracts.
C13_NoDomainNoLink ==
    [][MessageHandled =>
          /\ ~HasSupportedDomain(Strip(upd.text)) =>
                /\ user_data' = user_data
                /\ menus' = menus
                /\ reply'.msg \in {"not_extracted", "please_send_url", "error_handler"}
          /\ user_data' # user_data =>
                /\ HasSupportedDomain(Strip(upd.text))
                /\ extract_video_id(Strip(upd.text)) # None]_vars

\* User 2, whose texts hold no supported domain, sent the query of a watch
\* link and was told that no link could be extracted; nothing was stored.
C13_Witness ==
    /\ pc = "idle"
    /\ reply.from = 2
    /\ reply.msg = "not_extracted"
    /\ user_data = EmptyDict

\* C14: the artifact goes on to delivery only with a measured size of at
\* most the maximum (the maximum itself included), it is refused as too
\* large only with a size above it, and the refusal tells the user the
\* size, the maximum and the overage, the size minus the maximum.
C14_SizeCheckAndReport ==
    /\ pc = "dl_send" => job.size <= MAX_FILE_SIZE
    /\ job.outcome = "too_large" =>
          /\ job.size > MAX_FILE_SIZE
          /\ LET m == TooLargeMessage(job.size)
             IN /\ {"file_size", "maximum", "overage"} \subseteq DOMAIN m
                /\ m.overage = job.size - MAX_FILE_SIZE

\* An update of another user waits while the job of a user is between its
\* confirmation and its end.
OtherUserWaits ==
    /\ InFlight
    /\ queue # <<>>
    /\ Head(queue).from # job.user

\* C15: while the download or the delivery of one user's job is in
\* progress, the update of another user that waits can be taken up.
C15_OtherUsersNotBlocked == OtherUserWaits => ENABLED Dispatch

\* The handler of a Cancel press runs and answers it.
CancelHandled ==
    /\ pc = "handle"
    /\ upd.kind = "callback"
    /\ upd.data = S_cancel
    /\ reply'.msg = "cancelled"

\* C16: when a Cancel press has been answered, the presser has no current
\* video any more, so that a later quality press of theirs is stale until
\* they send a new link.
C16_CancelClearsContext ==
    [][CancelHandled => /\ CurrentVideo(user_data', upd.from) = NoVideo
                        /\ Stale(CurrentVideo(user_data', upd.from), upd.menu.video_id)]_vars

\* The answers of the info endpoint that are errors or no usable answer: a
\* failed or timed-out request, a status other than 200, a body that is not
\* JSON, an empty JSON value, a JSON value that is no dictionary.
FailedInfoResponses ==
    {"request_exception", "non200", "html", "json_falsy", "json_nondict"}

\* C17: when the info request failed or its answer is unusable, the user
\* gets the "unable to fetch" message (or an error message when the
\* transport refuses it), no menu is shown and no user's current video
\* changes.
C17_FetchFailureWritesNothing ==
    [][MessageHandled /\ reply'.info \in FailedInfoResponses =>
          /\ reply'.msg \in {"fetch_failed", "error_occurred", "error_handler"}
          /\ \A u \in Users : CurrentVideo(user_data', u) = CurrentVideo(user_data, u)
          /\ menus' = menus]_vars

\* How an ended job failed: its artifact was above the maximum, its download
\* broke, or the artifact passed the size check and the transport did not
\* take it.
FailureOf(j) ==
    IF j.size > MAX_FILE_SIZE THEN "TooLarge"
    ELSE IF j.status # "200" \/ j.size = -1 THEN "DownloadFailed"
    ELSE IF j.transport # "accepted" THEN "DeliveryFailed"
    ELSE "none"

\* C18: the message that ends a job whose delivery failed names neither of
\* the two other failures, and the messages for an oversized artifact and
\* for a failed download are used for these failures only.
C18_FailuresReportedDistinctly ==
    Ended(job) =>
        /\ reply.msg = "too_large" => FailureOf(job) = "TooLarge"
        /\ reply.msg = "download_failed" => FailureOf(job) = "DownloadFailed"
        /\ FailureOf(job) = "DeliveryFailed" =>
              OutcomeNamed(reply.msg) \notin {"TooLarge", "DownloadFailed"}

\* The link, title and identifier a job works with.
ContextOfJob(j) == [url |-> j.url, title |-> j.title, video_id |-> j.video_id]

\* The handler of a quality press starts a job.
JobStarts == pc = "handle" /\ pc' = "dl_get"

\* C19: the link, the title and the identifier of a job are those of one
\* stored context, the presser's current video when the press was handled,
\* whose identifier is the one the callback data carried; the job keeps
\* them while it runs, whatever is sent or pressed meanwhile.
C19_JobReadsOneContext ==
    [][/\ JobStarts =>
             /\ ContextOfJob(job') = CurrentVideo(user_data, upd.from)
             /\ job'.video_id = Split(upd.data, "_")[3]
             /\ job'.path = TempPath(upd.from, CurrentVideo(user_data, upd.from).video_id)
       /\ InFlight /\ InFlight' =>
             /\ ContextOfJob(job') = ContextOfJob(job)
             /\ job'.path = job.path]_vars

\* A job runs for a press on the menu of an earlier link of its user, who
\* has sent another link since: its link, title and identifier are those of
\* the current video.
C19_Witness ==
    /\ InFlight
    /\ upd.menu.owner = job.user
    /\ upd.menu.video_id # job.video_id
    /\ ContextOfJob(job) = CurrentVideo(user_data, job.user)
    /\ job.url = ShortLink(Id_a)

\* The user has stored settings.
HasSettings(ud, u) == "settings" \in DOMAIN DictGet(ud, u, EmptyDict)

\* The stored settings of a user are the same in both dictionaries.
SameSettings(ud1, ud2, u) ==
    /\ HasSettings(ud1, u) <=> HasSettings(ud2, u)
    /\ HasSettings(ud1, u) => ud1[u]["settings"] = ud2[u]["settings"]

\* The handler runs for a press of a settings button.
SettingsPressHandled ==
    /\ pc = "handle"
    /\ pc' # "handle"
    /\ upd.kind = "callback"
    /\ upd.data \in SettingsButtons

\* C20: every step other than the handling of a settings press (a link
\* submission, a selection, each step of a download job, a cancellation)
\* leaves every user's stored settings as they were, and the handling of a
\* settings press leaves every user's current video as it was.
C20_SettingsAndContextApart ==
    [][/\ ~SettingsPressHandled =>
             \A u \in Users : SameSettings(user_data, user_data', u)
       /\ SettingsPressHandled =>
             \A u \in Users : CurrentVideo(user_data', u) = CurrentVideo(user_data, u)]_vars

\* A job of user 1 has ended for their current video while their stored
\* settings hold a default quality and the auto-download flag.
C20_Witness ==
    /\ pc = "idle"
    /\ Ended(job)
    /\ job.user = 1
    /\ CurrentVideo(user_data, 1).video_id = job.video_id
    /\ HasSettings(user_data, 1)
    /\ DOMAIN user_data[1]["settings"] = {"default_quality", "auto_download"}
    /\ user_data[1]["settings"]["default_quality"] = K_best
    /\ user_data[1]["settings"]["auto_download"]

\* The entry of a user is the same in both dictionaries.
SameEntry(ud1, ud2, v) ==
    /\ v \in DOMAIN ud1 <=> v \in DOMAIN ud2
    /\ v \in DOMAIN ud1 => ud1[v] = ud2[v]

PressHandlerReturns == pc # "idle" /\ pc' = "idle" /\ upd.kind = "callback"

\* C22: the handler of a button press (a download_ token, well-formed or
\* not, stale or valid, or a button of the settings message) does not
\* return before it has sent the user a final message.
C22_EveryPressAnswered ==
    [][PressHandlerReturns => reply'.msg # "none"]_vars

\* C23: the dictionary the settings display reads for a user holds the
\* default quality, the auto-download flag and the send-as-document flag,
\* and for a user with no stored settings they are 720p, off and off.
C23_SettingsDisplayComplete ==
    \A u \in Users :
        /\ DisplayedSettings \subseteq DOMAIN user_settings(user_data, u)
        /\ ~HasSettings(user_data, u) =>
              /\ user_settings(user_data, u).default_quality = K_720p
              /\ ~user_settings(user_data, u).auto_download
              /\ ~user_settings(user_data, u).send_as_document

\* The entry of a user as every read of the source sees it:
\* self.user_data.get(user_id, {}).
EntryOf(ud, u) == DictGet(ud, u, EmptyDict)

\* C24: when the information request for a submitted link fails, the
\* handler of that link leaves the entry of every user, the sender's
\* included, as it was before: a current video stays current and the
\* buttons of its menu are still accepted.
C24_FailedFetchLeavesEntry ==
    [][MessageHandled /\ reply'.info \in FailedInfoResponses =>
          /\ \A u \in Users : EntryOf(user_data', u) = EntryOf(user_data, u)
          /\ \A m \in menus :
                m.owner = upd.from =>
                    (Stale(CurrentVideo(user_data', upd.from), m.video_id)
                        <=> Stale(CurrentVideo(user_data, upd.from), m.video_id))]_vars

====
